---- MODULE Spec2Model ----
(***************************************************************************)
(* A model of the cdb ("constant database") package: the lookup engine    *)
(* and full scan of cdb.go, the streaming Writer of writer.go, and the    *)
(* table builder, dumper and hash function they rest on.                   *)
(*                                                                         *)
(* A byte is an integer in 0..255, a byte string is a sequence of bytes,   *)
(* a file is a byte string whose first byte has offset 0.                  *)
(***************************************************************************)
EXTENDS Integers, Sequences, FiniteSets, TLC

(***************************************************************************)
(* Bounds of the model.                                                    *)
(***************************************************************************)
\* the largest number of records of a database
MaxRecs == 3
\* the largest number of NextBytes/NextReader calls made on one iterator
MaxNext == 4

(***************************************************************************)
(* Program constants.                                                      *)
(***************************************************************************)
headerSize == 2048
\* len(buf) of the iterator's scratch space
bufLen == 64

(***************************************************************************)
(* uint32.  The model checker's integers are 32-bit signed, so a uint32    *)
(* is kept as the pair <<hi, lo>> of its 16-bit halves, of value           *)
(* hi * 2^16 + lo, and its arithmetic wraps at 2^32 as Go's does.          *)
(***************************************************************************)
Half == 2^16

\* the uint32 of an integer 0 <= n < 2^31
u32(n) == <<n \div Half, n % Half>>

\* the integer of a uint32 below 2^31
int(a) == a[1] * Half + a[2]

zero32 == <<0, 0>>

\* a + b
add32(a, b) ==
    LET lo == a[2] + b[2]
    IN  <<(a[1] + b[1] + (lo \div Half)) % Half, lo % Half>>

\* a * m, for a small integer m
mul32(a, m) ==
    LET lo == a[2] * m
    IN  <<(a[1] * m + (lo \div Half)) % Half, lo % Half>>

\* a < b
lt32(a, b) == a[1] < b[1] \/ (a[1] = b[1] /\ a[2] < b[2])

\* a / 256, which is below 2^24
div256(a) == a[1] * 256 + (a[2] \div 256)

\* a % 256
mod256(a) == a[2] % 256

\* n % m for an integer n and a uint32 m # 0
mod32(n, m) == IF lt32(u32(n), m) THEN n ELSE n % int(m)

\* error values
nil == "nil"
EOF == "EOF"
ErrUnexpectedEOF == "ErrUnexpectedEOF"
ErrClosedPipe == "ErrClosedPipe"
BadFormatError == "BadFormatError"
ErrIO == "ErrIO"

(***************************************************************************)
(* The keys and values the model draws records from.  "pu" and "v3" have   *)
(* the same 32-bit hash and the same length; "hm" falls in their bucket    *)
(* (bucket 0) with another hash; the empty key falls in bucket 5.          *)
(***************************************************************************)
KeyEmpty == << >>
KeyHm == <<104, 109>>
KeyPu == <<112, 117>>
KeyV3 == <<118, 51>>
Keys == {KeyEmpty, KeyHm, KeyPu, KeyV3}
Vals == {<< >>, <<49>>}

Rec(k, v) == [key |-> k, val |-> v]
Records == {Rec(k, v) : k \in Keys, v \in Vals}

RECURSIVE SeqsUpTo(_, _)
SeqsUpTo(S, n) ==
    IF n = 0 THEN {<< >>}
    ELSE LET shorter == SeqsUpTo(S, n - 1)
         IN  shorter \cup {Append(s, x) : s \in {t \in shorter : Len(t) = n - 1}, x \in S}

(***************************************************************************)
(* Hash function (spec 4.1): h = 5381; h = ((h << 5) + h) XOR c.           *)
(***************************************************************************)
RECURSIVE Xor(_, _)
Xor(a, b) ==
    IF a = 0 THEN b
    ELSE IF b = 0 THEN a
    ELSE (((a % 2) + (b % 2)) % 2) + 2 * Xor(a \div 2, b \div 2)

hashStart == 5381

\* h XOR c for a byte c
xorByte(h, c) == <<h[1], (h[2] - (h[2] % 256)) + Xor(h[2] % 256, c)>>

\* (the hash so far is bound as g, so that it is computed once per byte)
RECURSIVE hashFrom(_, _, _)
hashFrom(h, key, i) ==
    IF i > Len(key) THEN h
    ELSE CHOOSE x \in {hashFrom(g, key, i + 1) : g \in {xorByte(add32(mul32(h, 32), h), key[i])}} :
             TRUE

checksum(key) == hashFrom(u32(hashStart), key, 1)

(***************************************************************************)
(* Little-endian uint32 fields.                                            *)
(***************************************************************************)
putNum(a) == <<a[2] % 256, a[2] \div 256, a[1] % 256, a[1] \div 256>>

\* binary.LittleEndian.Uint32
Uint32(b) == <<b[3] + 256 * b[4], b[1] + 256 * b[2]>>

(***************************************************************************)
(* The textual interchange format: "+klen,dlen:key->data\n" per record,    *)
(* one blank line at the end.                                              *)
(***************************************************************************)
RECURSIVE Itoa(_)
Itoa(n) == IF n < 10 THEN <<48 + n>> ELSE Itoa(n \div 10) \o <<48 + (n % 10)>>

\* FormatRecord with the two lengths in the wrong order
FormatRecord_swapped(key, val) ==
    <<43>> \o Itoa(Len(val)) \o <<44>> \o Itoa(Len(key)) \o <<58>>
        \o key \o <<45, 62>> \o val \o <<10>>

\* fmt.Sprintf("+%d,%d:%s->%s\n", len(key), len(value), key, value)
FormatRecord(key, val) ==
    <<43>> \o Itoa(Len(key)) \o <<44>> \o Itoa(Len(val)) \o <<58>>
        \o key \o <<45, 62>> \o val \o <<10>>

\* Fprintf with the value put where the key goes and the key where the value goes
Fprintf_swapped(key, val) ==
    <<43>> \o Itoa(Len(val)) \o <<44>> \o Itoa(Len(key)) \o <<58>>
        \o val \o <<45, 62>> \o key \o <<10>>

\* the bytes fmt.Fprintf(w.pipeWriter, "+%v,%v:%s->%s\n", len(key), len(val), key, val)
\* hands to the pipe in one Write
Fprintf(key, val) ==
    <<43>> \o Itoa(Len(key)) \o <<44>> \o Itoa(Len(val)) \o <<58>>
        \o key \o <<45, 62>> \o val \o <<10>>

\* the end marker
EndMarker == <<10>>

RECURSIVE FormatRecords(_)
FormatRecords(recs) ==
    IF recs = << >> THEN << >>
    ELSE FormatRecord(Head(recs).key, Head(recs).val) \o FormatRecords(Tail(recs))

\* the stream the tests' init() builds from a list of records
FormatStream(recs) == FormatRecords(recs) \o EndMarker

(***************************************************************************)
(* Table builder (spec 4.2).  Make reads the interchange stream record by  *)
(* record, lays the records out from offset 2048, then writes the 256      *)
(* sub-tables and the header.                                              *)
(***************************************************************************)
\* a decimal number ended by delim, read from s[i..]
RECURSIVE readNum(_, _, _, _)
readNum(s, i, delim, n) ==
    IF i > Len(s) THEN [err |-> ErrUnexpectedEOF, n |-> 0, next |-> i]
    ELSE IF s[i] = delim THEN [err |-> nil, n |-> n, next |-> i + 1]
    ELSE IF s[i] < 48 \/ s[i] > 57 THEN [err |-> BadFormatError, n |-> 0, next |-> i]
    ELSE readNum(s, i + 1, delim, n * 10 + (s[i] - 48))

\* the byte c is expected at s[i]
eatByte(s, i, c) ==
    IF i > Len(s) THEN ErrUnexpectedEOF
    ELSE IF s[i] # c THEN BadFormatError
    ELSE nil

noRecord(e) == [err |-> e, key |-> << >>, val |-> << >>, next |-> 0]

\* "key->data\n" with the lengths klen and dlen, read from s[j..]
readBody(s, j, klen, dlen) ==
    IF j + klen - 1 > Len(s) THEN noRecord(ErrUnexpectedEOF)
    ELSE IF eatByte(s, j + klen, 45) # nil THEN noRecord(eatByte(s, j + klen, 45))
    ELSE IF eatByte(s, j + klen + 1, 62) # nil THEN noRecord(eatByte(s, j + klen + 1, 62))
    ELSE IF j + klen + 1 + dlen > Len(s) THEN noRecord(ErrUnexpectedEOF)
    ELSE IF eatByte(s, j + klen + 2 + dlen, 10) # nil
    THEN noRecord(eatByte(s, j + klen + 2 + dlen, 10))
    ELSE [err |-> nil,
          key |-> SubSeq(s, j, j + klen - 1),
          val |-> SubSeq(s, j + klen + 2, j + klen + 1 + dlen),
          next |-> j + klen + 3 + dlen]

readDataLen(s, klen, dl) ==
    IF dl.err # nil THEN noRecord(dl.err) ELSE readBody(s, dl.next, klen, dl.n)

readKeyLen(s, kl) ==
    IF kl.err # nil THEN noRecord(kl.err)
    ELSE readDataLen(s, kl.n, readNum(s, kl.next, 58, 0))

\* one record "+klen,dlen:key->data\n" read from s[i..]
readRecord(s, i) == readKeyLen(s, readNum(s, i + 1, 44, 0))

\* Step 2: the records of s[i..] written from offset pos on; slots holds one
\* (hash, record position) entry per record, in arrival order.
RECURSIVE readRecords(_, _, _, _, _)
RECURSIVE writeRecord(_, _, _, _, _)
readRecords(s, i, pos, body, slots) ==
    IF i > Len(s) THEN [err |-> ErrUnexpectedEOF, pos |-> pos, body |-> body, slots |-> slots]
    ELSE IF s[i] = 10 THEN [err |-> nil, pos |-> pos, body |-> body, slots |-> slots]
    ELSE IF s[i] # 43 THEN [err |-> BadFormatError, pos |-> pos, body |-> body, slots |-> slots]
    ELSE CHOOSE x \in {writeRecord(s, pos, body, slots, r) : r \in {readRecord(s, i)}} : TRUE

writeRecord(s, pos, body, slots, r) ==
    IF r.err # nil THEN [err |-> r.err, pos |-> pos, body |-> body, slots |-> slots]
    ELSE readRecords(s, r.next,
             pos + 8 + Len(r.key) + Len(r.val),
             body \o putNum(u32(Len(r.key))) \o putNum(u32(Len(r.val))) \o r.key \o r.val,
             Append(slots, [h |-> checksum(r.key), pos |-> pos]))

emptySlot == [h |-> zero32, pos |-> 0]

\* the first empty slot from slotPos on, wrapping around
RECURSIVE probe(_, _)
probe(table, slotPos) ==
    IF table[slotPos + 1].pos # 0
    THEN probe(table, IF slotPos + 1 = Len(table) THEN 0 ELSE slotPos + 1)
    ELSE slotPos

\* fillTable that stores each entry at its first slot without probing
RECURSIVE fillTable_overwrite(_, _)
fillTable_overwrite(table, es) ==
    IF es = << >> THEN table
    ELSE fillTable_overwrite([table EXCEPT ![(div256(Head(es).h) % Len(table)) + 1] = Head(es)],
                             Tail(es))

\* the entries es placed into table in arrival order
RECURSIVE fillTable(_, _)
fillTable(table, es) ==
    IF es = << >> THEN table
    ELSE fillTable([table EXCEPT ![probe(table, div256(Head(es).h) % Len(table)) + 1] = Head(es)],
                   Tail(es))

\* the sub-table of a bucket with entries es: 2 * Len(es) slots
hashTable(es) == fillTable([j \in 1..(2 * Len(es)) |-> emptySlot], es)

RECURSIVE slotBytes(_)
slotBytes(table) ==
    IF table = << >> THEN << >>
    ELSE putNum(Head(table).h) \o putNum(u32(Head(table).pos)) \o slotBytes(Tail(table))

\* the entries of bucket b, in arrival order
bucketSlots(slots, b) == SelectSeq(slots, LAMBDA e : mod256(e.h) = b)

\* Step 3: the sub-tables are written one after the other from offset pos on,
\* in bucket order, so the sub-table of bucket b starts after the slots of the
\* buckets below b.
tablePos(slots, pos, b) ==
    pos + 8 * 2 * Cardinality({i \in DOMAIN slots : mod256(slots[i].h) < b})

minOf(bs) == CHOOSE x \in bs : \A y \in bs : x <= y

\* the bytes of the sub-tables of the buckets bs, in bucket order
RECURSIVE writeTables(_, _)
RECURSIVE writeTable(_, _, _)
writeTables(slots, bs) ==
    IF bs = {} THEN << >> ELSE writeTable(slots, bs, minOf(bs))

writeTable(slots, bs, b) ==
    slotBytes(hashTable(bucketSlots(slots, b))) \o writeTables(slots, bs \ {b})

\* Step 4: the 256 header entries (sub-table position, slot count) as 2048 bytes
headerEntry(slots, pos, b) ==
    <<u32(tablePos(slots, pos, b)), u32(2 * Len(bucketSlots(slots, b)))>>

headerBytes(slots, pos) ==
    [i \in 1..headerSize |->
        putNum(headerEntry(slots, pos, (i - 1) \div 8)[(((i - 1) % 8) \div 4) + 1])
            [((i - 1) % 4) + 1]]

makeFile(rr) ==
    IF rr.err # nil THEN [err |-> rr.err, file |-> << >>]
    ELSE [err |-> nil,
          file |-> headerBytes(rr.slots, rr.pos) \o rr.body
                       \o writeTables(rr.slots, {mod256(rr.slots[i].h) : i \in DOMAIN rr.slots})]

\* Make(w, r): the file built from the stream, or the error met in the stream
\* (the records read are bound as rr, and each record as r in readRecords, so
\* that the stream is parsed once)
Make(stream) ==
    CHOOSE x \in {makeFile(rr) : rr \in {readRecords(stream, 1, headerSize, << >>, << >>)}} :
        TRUE


(***************************************************************************)
(* The random-access byte source (io.ReaderAt over a file or a byte        *)
(* slice).                                                                 *)
(***************************************************************************)
\* r.ReadAt(b, int64(off)) with len(b) = n: the bytes read and io.EOF when the
\* source ends before n bytes
ReadAt(f, n, off) ==
    IF ~lt32(off, u32(Len(f))) THEN [data |-> << >>, err |-> EOF]
    ELSE IF int(off) + n <= Len(f)
    THEN [data |-> SubSeq(f, int(off) + 1, int(off) + n), err |-> nil]
    ELSE [data |-> SubSeq(f, int(off) + 1, Len(f)), err |-> EOF]

\* what io.NewSectionReader(r, int64(off), int64(n)) exposes of the source
sectionBytes(f, off, n) ==
    IF ~lt32(off, u32(Len(f))) THEN << >>
    ELSE IF lt32(n, u32(Len(f) - int(off)))
    THEN SubSeq(f, int(off) + 1, int(off) + int(n))
    ELSE SubSeq(f, int(off) + 1, Len(f))

\* io.ReadFull into a buffer of n bytes, from a reader that exposes data
readFull(data, n) ==
    IF u32(Len(data)) = n THEN [data |-> data, err |-> nil]
    ELSE IF data = << >> THEN [data |-> data, err |-> EOF]
    ELSE [data |-> data, err |-> ErrUnexpectedEOF]

(***************************************************************************)
(* The lookup engine of cdb.go.                                            *)
(***************************************************************************)
\* readNums after its ReadAt returned r
decodeNums(r) ==
    LET err == IF r.err = EOF /\ Len(r.data) = 8 THEN nil
               ELSE IF r.err = EOF THEN ErrUnexpectedEOF
               ELSE r.err
    IN  IF err # nil THEN [a |-> zero32, b |-> zero32, err |-> err]
        ELSE [a |-> Uint32(SubSeq(r.data, 1, 4)), b |-> Uint32(SubSeq(r.data, 5, 8)),
              err |-> nil]

readNums(f, pos) == decodeNums(ReadAt(f, 8, pos))

\* the loop of match at key offset n, with a scratch buffer of blen bytes
RECURSIVE matchFrom(_, _, _, _, _)
RECURSIVE matchBuf(_, _, _, _, _)
RECURSIVE matchRead(_, _, _, _, _, _)
matchFrom(f, blen, key, pos, n) ==
    IF n >= Len(key) THEN [isMatch |-> TRUE, err |-> nil]
    ELSE matchBuf(f, IF blen > Len(key) - n THEN Len(key) - n ELSE blen, key, pos, n)

matchBuf(f, blen, key, pos, n) == matchRead(f, blen, key, pos, n, ReadAt(f, blen, pos))

matchRead(f, blen, key, pos, n, r) ==
    IF r.err # nil THEN [isMatch |-> FALSE, err |-> r.err]
    ELSE IF r.data # SubSeq(key, n + 1, n + blen) THEN [isMatch |-> FALSE, err |-> nil]
    ELSE matchFrom(f, blen, key, add32(pos, u32(blen)), n + blen)

\* match without the comparison of the bytes
match_lenOnly(f, key, pos) == [isMatch |-> TRUE, err |-> nil]

match(f, key, pos) == matchFrom(f, bufLen, key, pos, 0)

\* iterateTable that rejects a sub-table position inside the header, before it
\* looks at the slot count
iterateTable_checksPos(key, khash, hd) ==
    [key |-> key,
     initErr |-> IF hd.err # nil THEN hd.err
                 ELSE IF lt32(hd.a, u32(headerSize)) THEN ErrUnexpectedEOF
                 ELSE IF hd.b = zero32 THEN EOF
                 ELSE nil,
     loop |-> zero32, khash |-> khash,
     kpos |-> IF hd.err = nil /\ hd.b # zero32
              THEN add32(hd.a, mul32(u32(mod32(div256(khash), hd.b)), 8))
              ELSE zero32,
     hpos |-> hd.a, hslots |-> hd.b, dpos |-> zero32, dlen |-> zero32]

\* iterateTable with the first slot taken from the hash itself, not from hash / 256
iterateTable_noShift(key, khash, hd) ==
    [key |-> key, initErr |-> IF hd.err = nil /\ hd.b = zero32 THEN EOF ELSE hd.err,
     loop |-> zero32, khash |-> khash,
     kpos |-> IF hd.err = nil /\ hd.b # zero32
              THEN add32(hd.a, mul32(u32(mod32(khash[2], hd.b)), 8))
              ELSE zero32,
     hpos |-> hd.a, hslots |-> hd.b, dpos |-> zero32, dlen |-> zero32]

\* iterateTable with the probe started at the first slot of the sub-table
iterateTable_fromStart(key, khash, hd) ==
    [key |-> key, initErr |-> IF hd.err = nil /\ hd.b = zero32 THEN EOF ELSE hd.err,
     loop |-> zero32, khash |-> khash, kpos |-> hd.a, hpos |-> hd.a, hslots |-> hd.b,
     dpos |-> zero32, dlen |-> zero32]

\* Iterate after the header entry hd of the key's bucket was read
iterateTable(key, khash, hd) ==
    LET iter == [key |-> key, initErr |-> hd.err, loop |-> zero32, khash |-> khash,
                 kpos |-> zero32, hpos |-> hd.a, hslots |-> hd.b,
                 dpos |-> zero32, dlen |-> zero32]
    IN  IF hd.err # nil THEN iter
        ELSE IF hd.b = zero32 THEN [iter EXCEPT !.initErr = EOF]
        ELSE [iter EXCEPT !.kpos = add32(hd.a, mul32(u32(mod32(div256(khash), hd.b)), 8))]

iterateHash(f, key, khash) == iterateTable(key, khash, readNums(f, u32(mod256(khash) * 8)))

Iterate(f, key) == iterateHash(f, key, checksum(key))

\* advance that moves kpos and leaves loop as it is
advance_noCount(iter) ==
    [iter EXCEPT !.kpos = IF add32(iter.kpos, u32(8)) = add32(iter.hpos, mul32(iter.hslots, 8))
                          THEN iter.hpos
                          ELSE add32(iter.kpos, u32(8))]

\* advance that probes towards the start of the sub-table
advance_backwards(iter) ==
    [iter EXCEPT !.loop = add32(iter.loop, u32(1)),
                 !.kpos = IF iter.kpos = iter.hpos
                          THEN u32(int(iter.hpos) + 8 * (int(iter.hslots) - 1))
                          ELSE u32(int(iter.kpos) - 8)]

\* advance without the wrap to the start of the sub-table
advance_noWrap(iter) ==
    [iter EXCEPT !.loop = add32(iter.loop, u32(1)), !.kpos = add32(iter.kpos, u32(8))]

\* "Move the iterator to the next position."
advance(iter) ==
    [iter EXCEPT !.loop = add32(iter.loop, u32(1)),
                 !.kpos = IF add32(iter.kpos, u32(8)) = add32(iter.hpos, mul32(iter.hslots, 8))
                          THEN iter.hpos
                          ELSE add32(iter.kpos, u32(8))]

\* the for loop of next: nextSlot after the slot was read, nextRecord after the
\* record's lengths were read, nextMatch after the keys were compared
RECURSIVE nextLoop(_, _)
RECURSIVE nextSlot(_, _, _)
RECURSIVE nextRecord(_, _, _, _)
RECURSIVE nextMatch(_, _, _, _, _)
nextLoop(f, iter) ==
    IF ~lt32(iter.loop, iter.hslots) THEN [iter |-> iter, err |-> EOF]
    ELSE nextSlot(f, iter, readNums(f, iter.kpos))

\* nextSlot that moves past an empty slot before it returns io.EOF
nextSlot_advanceOnEmpty(f, iter, slot) ==
    IF slot.err # nil THEN [iter |-> iter, err |-> slot.err]
    ELSE IF slot.b = zero32 THEN [iter |-> advance(iter), err |-> EOF]
    ELSE IF slot.a # iter.khash THEN nextLoop(f, advance(iter))
    ELSE nextRecord(f, advance(iter), slot.b, readNums(f, slot.b))

nextSlot(f, iter, slot) ==
    IF slot.err # nil THEN [iter |-> iter, err |-> slot.err]
    ELSE IF slot.b = zero32 THEN [iter |-> iter, err |-> EOF]
    ELSE IF slot.a # iter.khash THEN nextLoop(f, advance(iter))
    ELSE nextRecord(f, advance(iter), slot.b, readNums(f, slot.b))

nextRecord(f, iter, recPos, lens) ==
    IF lens.err # nil THEN [iter |-> iter, err |-> lens.err]
    ELSE IF lens.a # u32(Len(iter.key)) THEN nextLoop(f, iter)
    ELSE nextMatch(f, iter, recPos, lens, match(f, iter.key, add32(recPos, u32(8))))

\* nextMatch taking a record whose key differs for a match
nextMatch_any(f, iter, recPos, lens, m) ==
    IF m.err # nil THEN [iter |-> iter, err |-> m.err]
    ELSE [iter |-> [iter EXCEPT !.dpos = add32(add32(recPos, u32(8)), lens.a),
                                !.dlen = lens.b],
          err |-> nil]

nextMatch(f, iter, recPos, lens, m) ==
    IF m.err # nil THEN [iter |-> iter, err |-> m.err]
    ELSE IF ~m.isMatch THEN nextLoop(f, iter)
    ELSE [iter |-> [iter EXCEPT !.dpos = add32(add32(recPos, u32(8)), lens.a),
                                !.dlen = lens.b],
          err |-> nil]

next(f, iter) ==
    IF iter.initErr # nil THEN [iter |-> iter, err |-> iter.initErr]
    ELSE nextLoop(f, iter)

\* A returned value: found says whether a value came back (a non-nil slice or
\* reader), val is its bytes.
Ret(found, val, err) == [found |-> found, val |-> val, err |-> err]

\* NextBytes after its ReadAt of the data returned r
nextBytesData(r) ==
    IF r.err # nil
    THEN Ret(FALSE, << >>, IF r.err = EOF THEN ErrUnexpectedEOF ELSE r.err)
    ELSE Ret(TRUE, r.data, nil)

\* nextBytesOf that takes a data length of 0 for no record
nextBytesOf_zeroIsAbsent(f, n) ==
    IF n.err # nil THEN [iter |-> n.iter, ret |-> Ret(FALSE, << >>, n.err)]
    ELSE IF n.iter.dlen = zero32 THEN [iter |-> n.iter, ret |-> Ret(FALSE, << >>, EOF)]
    ELSE [iter |-> n.iter,
          ret |-> nextBytesData(ReadAt(f, int(n.iter.dlen), n.iter.dpos))]

\* NextBytes after next returned n
nextBytesOf(f, n) ==
    IF n.err # nil THEN [iter |-> n.iter, ret |-> Ret(FALSE, << >>, n.err)]
    ELSE [iter |-> n.iter,
          ret |-> nextBytesData(ReadAt(f, int(n.iter.dlen), n.iter.dpos))]

NextBytes(f, iter) == nextBytesOf(f, next(f, iter))

\* NextReader after next returned n
nextReaderOf(f, n) ==
    IF n.err # nil THEN [iter |-> n.iter, ret |-> Ret(FALSE, << >>, n.err)]
    ELSE [iter |-> n.iter,
          ret |-> Ret(TRUE, sectionBytes(f, n.iter.dpos, n.iter.dlen), nil)]

NextReader(f, iter) == nextReaderOf(f, next(f, iter))

\* Exists after next returned err
existsOf(err) ==
    IF err = EOF THEN [found |-> FALSE, err |-> nil]
    ELSE IF err # nil THEN [found |-> FALSE, err |-> err]
    ELSE [found |-> TRUE, err |-> nil]

Exists(f, key) == existsOf(next(f, Iterate(f, key)).err)

Bytes(f, key) == NextBytes(f, Iterate(f, key)).ret

Reader(f, key) == NextReader(f, Iterate(f, key)).ret


(***************************************************************************)
(* The full scan.  The callback of the model returns nil, except that its  *)
(* stopAt-th call returns an error when stopAt > 0; calls lists what each   *)
(* call was handed: the bytes of the two slices, or the bytes the two      *)
(* section readers expose.                                                 *)
(***************************************************************************)
ErrCallback == "ErrCallback"

\* the function ForEachBytes hands to ForEachReader, after its two ReadFull
\* calls returned k and d
onRecordRead(k, d) ==
    IF k.err # nil THEN [key |-> << >>, val |-> << >>, err |-> k.err]
    ELSE IF d.err # nil THEN [key |-> << >>, val |-> << >>, err |-> d.err]
    ELSE [key |-> k.data, val |-> d.data, err |-> nil]

\* what the callback is handed for the record at pos with lengths lens; asBytes:
\* the callback is the function ForEachBytes hands over
onRecord(f, asBytes, keyOff, klen, valOff, dlen) ==
    IF asBytes
    THEN onRecordRead(readFull(sectionBytes(f, keyOff, klen), klen),
                      readFull(sectionBytes(f, valOff, dlen), dlen))
    ELSE [key |-> sectionBytes(f, keyOff, klen), val |-> sectionBytes(f, valOff, dlen),
          err |-> nil]

\* the for loop of ForEachReader: forEachRecord after the record's lengths were
\* read, forEachCall after the callback was handed rd
RECURSIVE forEachLoop(_, _, _, _, _, _)
RECURSIVE forEachRecord(_, _, _, _, _, _, _)
RECURSIVE forEachCall(_, _, _, _, _, _, _)
forEachLoop(f, pos, end, calls, asBytes, stopAt) ==
    IF ~lt32(pos, end) THEN [calls |-> calls, err |-> nil]
    ELSE forEachRecord(f, pos, end, calls, asBytes, stopAt, readNums(f, pos))

forEachRecord(f, pos, end, calls, asBytes, stopAt, lens) ==
    IF lens.err # nil THEN [calls |-> calls, err |-> lens.err]
    ELSE forEachCall(f, add32(add32(add32(pos, u32(8)), lens.a), lens.b), end, calls,
                     asBytes, stopAt,
                     onRecord(f, asBytes, add32(pos, u32(8)), lens.a,
                              add32(add32(pos, u32(8)), lens.a), lens.b))

forEachCall(f, nextPos, end, calls, asBytes, stopAt, rd) ==
    IF rd.err # nil THEN [calls |-> calls, err |-> rd.err]
    ELSE IF Len(calls) + 1 = stopAt
    THEN [calls |-> Append(calls, Rec(rd.key, rd.val)), err |-> ErrCallback]
    ELSE forEachLoop(f, nextPos, end, Append(calls, Rec(rd.key, rd.val)), asBytes, stopAt)

\* forEachFrom with the two numbers of header entry 0 taken for each other
forEachFrom_swapped(f, hd, asBytes, stopAt) ==
    IF hd.err # nil THEN [calls |-> << >>, err |-> hd.err]
    ELSE forEachLoop(f, u32(headerSize), hd.b, << >>, asBytes, stopAt)

\* forEachFrom with the scan started at offset 0
forEachFrom_fromZero(f, hd, asBytes, stopAt) ==
    IF hd.err # nil THEN [calls |-> << >>, err |-> hd.err]
    ELSE forEachLoop(f, zero32, hd.a, << >>, asBytes, stopAt)

\* ForEachReader after header entry 0 was read
forEachFrom(f, hd, asBytes, stopAt) ==
    IF hd.err # nil THEN [calls |-> << >>, err |-> hd.err]
    ELSE forEachLoop(f, u32(headerSize), hd.a, << >>, asBytes, stopAt)

forEach(f, asBytes, stopAt) == forEachFrom(f, readNums(f, zero32), asBytes, stopAt)

ForEachReader(f, stopAt) == forEach(f, FALSE, stopAt)

ForEachBytes(f, stopAt) == forEach(f, TRUE, stopAt)

(***************************************************************************)
(* Dump (spec 4.5): the full scan, written in the interchange format.      *)
(***************************************************************************)
RECURSIVE dumpRecords(_)
dumpRecords(rs) ==
    IF rs = << >> THEN << >>
    ELSE <<43>> \o Itoa(Len(Head(rs).key)) \o <<44>> \o Itoa(Len(Head(rs).val)) \o <<58>>
             \o Head(rs).key \o <<45, 62>> \o Head(rs).val \o <<10>>
             \o dumpRecords(Tail(rs))

\* Dump after the scan returned r
dumpOf(r) ==
    IF r.err # nil THEN [out |-> << >>, err |-> r.err]
    ELSE [out |-> dumpRecords(r.calls) \o <<10>>, err |-> nil]

Dump(f) == dumpOf(forEach(f, TRUE, 0))

(***************************************************************************)
(* State.                                                                  *)
(*   recs      the records the database is made of, in write order         *)
(*   stream    the interchange stream handed to Make                       *)
(*   built     whether Make has returned                                   *)
(*   makeRet   the error Make returned                                     *)
(*   file      the bytes of the database file                              *)
(*   iter      << >>, or <<it>> for the iterator it a caller holds         *)
(*   out       what the NextBytes/NextReader calls on iter returned         *)
(*   ret       << >>, or <<r>> for the result r of a one-call query        *)
(***************************************************************************)
VARIABLES recs, damage, stream, built, makeRet, file, iter, out, ret,
          w, pipe, task, pc, cur, calls, rd, bufs

\* the state of the builder and of the queries
rvars == <<recs, damage, stream, built, makeRet, file, iter, out, ret>>

\* the state of a Writer, of its pipe, of its goroutine and of its caller
wvars == <<w, pipe, task, pc, cur, calls>>

\* the callers that read one Cdb at the same time: rd[i] is caller i's position,
\* iterator and local variables, bufs[i] the scratch buffer of iterator i
cvars == <<rd, bufs>>

vars == <<rvars, wvars, cvars>>

\* the result of a one-call query
Result(op, key, found, val, err, called) ==
    [op |-> op, key |-> key, found |-> found, val |-> val, err |-> err, calls |-> called]

\* a database is built and no query has been made on it yet
Fresh == built /\ makeRet = nil /\ iter = << >> /\ ret = << >>

\* the callers of the concurrent reads
Readers == {1, 2}

\* a CdbIterator before Iterate has filled it in
zeroIter ==
    [key |-> << >>, initErr |-> nil, loop |-> zero32, khash |-> zero32, kpos |-> zero32,
     hpos |-> zero32, hslots |-> zero32, dpos |-> zero32, dlen |-> zero32]

\* a caller that has not called yet
idleReader ==
    [op |-> "none", pc |-> "idle", it |-> zeroIter, nread |-> 0, rerr |-> nil,
     recPos |-> zero32, keyLen |-> zero32, dataLen |-> zero32,
     mpos |-> zero32, mn |-> 0, mlen |-> 0, out |-> << >>,
     pos |-> zero32, end |-> zero32, calls |-> << >>, err |-> nil]

\* no caller has called yet; the scratch buffers are zeroed arrays
NoReaders ==
    /\ rd = [i \in Readers |-> idleReader]
    /\ bufs = [i \in Readers |-> [k \in 1..bufLen |-> 0]]

\* NewWriter(ws) has returned: the pipe is open, doneCh is empty, the goroutine
\* is in Make, and the caller is between calls
NewWriter ==
    /\ w = [makeErr |-> nil, doneCh |-> << >>]
    /\ pipe = [data |-> << >>, wclosed |-> FALSE, rclosed |-> FALSE]
    /\ task = "Make"
    /\ pc = "idle"
    /\ cur = << >>
    /\ calls = << >>

Init ==
    /\ recs \in SeqsUpTo(Records, MaxRecs)
    /\ damage = "none"
    /\ stream = FormatStream(recs)
    /\ built = FALSE
    /\ makeRet = nil
    /\ file = << >>
    /\ iter = << >>
    /\ out = << >>
    /\ ret = << >>
    /\ NewWriter
    /\ NoReaders

\* Make(w, r) on the stream
DoMake ==
    /\ ~built
    /\ built' = TRUE
    /\ \E m \in {Make(stream)} : makeRet' = m.err /\ file' = m.file
    /\ UNCHANGED <<cvars, recs, damage, stream, iter, out, ret, wvars>>

\* iter := c.Iterate(key)
DoIterate(key) ==
    /\ Fresh
    /\ iter' = <<Iterate(file, key)>>
    /\ UNCHANGED <<cvars, recs, damage, stream, built, makeRet, file, out, ret, wvars>>

\* iter.NextBytes()
DoNextBytes ==
    /\ iter # << >>
    /\ Len(out) < MaxNext
    /\ \E r \in {NextBytes(file, iter[1])} : iter' = <<r.iter>> /\ out' = Append(out, r.ret)
    /\ UNCHANGED <<cvars, recs, damage, stream, built, makeRet, file, ret, wvars>>

\* iter.NextReader()
DoNextReader ==
    /\ iter # << >>
    /\ Len(out) < MaxNext
    /\ \E r \in {NextReader(file, iter[1])} : iter' = <<r.iter>> /\ out' = Append(out, r.ret)
    /\ UNCHANGED <<cvars, recs, damage, stream, built, makeRet, file, ret, wvars>>

\* c.Exists(key)
DoExists(key) ==
    /\ Fresh
    /\ \E r \in {Exists(file, key)} :
           ret' = <<Result("Exists", key, r.found, << >>, r.err, << >>)>>
    /\ UNCHANGED <<cvars, recs, damage, stream, built, makeRet, file, iter, out, wvars>>

\* c.Bytes(key)
DoBytes(key) ==
    /\ Fresh
    /\ \E r \in {Bytes(file, key)} :
           ret' = <<Result("Bytes", key, r.found, r.val, r.err, << >>)>>
    /\ UNCHANGED <<cvars, recs, damage, stream, built, makeRet, file, iter, out, wvars>>

\* c.Reader(key)
DoReader(key) ==
    /\ Fresh
    /\ \E r \in {Reader(file, key)} :
           ret' = <<Result("Reader", key, r.found, r.val, r.err, << >>)>>
    /\ UNCHANGED <<cvars, recs, damage, stream, built, makeRet, file, iter, out, wvars>>

\* c.ForEachReader(onRecordFn)
DoForEachReader(stopAt) ==
    /\ Fresh
    /\ \E r \in {ForEachReader(file, stopAt)} :
           ret' = <<Result("ForEachReader", << >>, FALSE, << >>, r.err, r.calls)>>
    /\ UNCHANGED <<cvars, recs, damage, stream, built, makeRet, file, iter, out, wvars>>

\* c.ForEachBytes(onRecordFn)
DoForEachBytes(stopAt) ==
    /\ Fresh
    /\ \E r \in {ForEachBytes(file, stopAt)} :
           ret' = <<Result("ForEachBytes", << >>, FALSE, << >>, r.err, r.calls)>>
    /\ UNCHANGED <<cvars, recs, damage, stream, built, makeRet, file, iter, out, wvars>>

\* Dump(w, r) on the file
DoDump ==
    /\ Fresh
    /\ \E r \in {Dump(file)} :
           ret' = <<Result("Dump", << >>, FALSE, r.out, r.err, << >>)>>
    /\ UNCHANGED <<cvars, recs, damage, stream, built, makeRet, file, iter, out, wvars>>

Next ==
    \/ DoMake
    \/ \E key \in Keys : DoIterate(key)
    \/ DoNextBytes
    \/ DoNextReader
    \/ \E key \in Keys : DoExists(key)
    \/ \E key \in Keys : DoBytes(key)
    \/ \E key \in Keys : DoReader(key)
    \/ \E stopAt \in 0..MaxRecs : DoForEachReader(stopAt)
    \/ \E stopAt \in 0..MaxRecs : DoForEachBytes(stopAt)
    \/ DoDump

Spec == Init /\ [][Next]_vars

(***************************************************************************)
(* The streaming writer.  NewWriter starts a goroutine that runs Make on   *)
(* the read end of an unbuffered pipe; Write and Close run in the caller   *)
(* and hand bytes to the write end.  A Write on the pipe blocks until the  *)
(* reader has taken all of its bytes or one end is closed.  In this part   *)
(* stream is what Make has read from the pipe, built says that Make has    *)
(* returned, makeRet is what it returned and file is what it wrote to ws.  *)
(***************************************************************************)
MaxCalls == 3

\* the keys the caller writes
WKeys == {KeyPu, KeyHm}

\* a call of the caller as it begins; failed: Make had returned an error
\* when the call began; recv: what the call received from doneCh in the select
\* of Write; piped: the call reached a Write on the pipe; waited: the call
\* reached the receive from doneCh in Close
Call(op, key, val) ==
    [op |-> op, key |-> key, val |-> val, err |-> nil,
     failed |-> built /\ makeRet # nil,
     recv |-> << >>, piped |-> FALSE, waited |-> FALSE]

\* the call c returns err
Return(c, err) ==
    /\ calls' = Append(calls, [c EXCEPT !.err = err])
    /\ pc' = "idle"
    /\ cur' = << >>

\* the call c goes on at the position at
Goto(c, at) ==
    /\ calls' = calls
    /\ pc' = at
    /\ cur' = <<c>>

\* select { case err := <-w.doneCh: w.makeErr = err; default: }
selectDone(ww) ==
    IF ww.doneCh # << >>
    THEN [makeErr |-> Head(ww.doneCh), doneCh |-> Tail(ww.doneCh)]
    ELSE ww

\* Write that returns the error it receives and does not store it in makeErr
Write_forgets(key, val) ==
    /\ pc = "idle"
    /\ Len(calls) < MaxCalls
    /\ w' = [w EXCEPT !.doneCh = << >>]
    /\ IF selectDone(w).makeErr # nil
       THEN Return([Call("Write", key, val) EXCEPT !.recv = w.doneCh], selectDone(w).makeErr)
       ELSE Goto([Call("Write", key, val) EXCEPT !.recv = w.doneCh], "Fprintf")
    /\ UNCHANGED <<cvars, rvars, pipe, task>>

\* w.Write(key, val), up to the Fprintf
Write(key, val) ==
    /\ pc = "idle"
    /\ Len(calls) < MaxCalls
    /\ w' = selectDone(w)
    /\ IF w'.makeErr # nil
       THEN Return([Call("Write", key, val) EXCEPT !.recv = w.doneCh], w'.makeErr)
       ELSE Goto([Call("Write", key, val) EXCEPT !.recv = w.doneCh], "Fprintf")
    /\ UNCHANGED <<cvars, rvars, pipe, task>>

\* the Fprintf of Write hands the record to the pipe, which refuses it when an
\* end is closed
WriteFprintf ==
    /\ pc = "Fprintf"
    /\ IF pipe.wclosed \/ pipe.rclosed
       THEN /\ Return([cur[1] EXCEPT !.piped = TRUE], ErrClosedPipe)
            /\ pipe' = pipe
       ELSE /\ Goto([cur[1] EXCEPT !.piped = TRUE], "Write")
            /\ pipe' = [pipe EXCEPT !.data = Fprintf(cur[1].key, cur[1].val)]
    /\ UNCHANGED <<cvars, rvars, w, task>>

\* WriteReturn over a pipe that buffers: nil at once, the bytes left for later
WriteReturn_early ==
    /\ pc = "Write"
    /\ Return(cur[1], nil)
    /\ pipe' = pipe
    /\ UNCHANGED <<cvars, rvars, w, task>>

\* the Fprintf of Write returns: nil when the reader has taken the bytes,
\* io.ErrClosedPipe when the read end was closed first
WriteReturn ==
    /\ pc = "Write"
    /\ pipe.data = << >> \/ pipe.rclosed
    /\ Return(cur[1], IF pipe.data = << >> THEN nil ELSE ErrClosedPipe)
    /\ pipe' = [pipe EXCEPT !.data = << >>]
    /\ UNCHANGED <<cvars, rvars, w, task>>

\* w.Close(), up to the Write of the end marker
Close ==
    /\ pc = "idle"
    /\ Len(calls) < MaxCalls
    /\ IF w.makeErr # nil
       THEN Return(Call("Close", << >>, << >>), w.makeErr)
       ELSE Goto(Call("Close", << >>, << >>), "CloseWrite")
    /\ UNCHANGED <<cvars, rvars, w, pipe, task>>

\* w.pipeWriter.Write([]byte("\n")) begins; its error is dropped
CloseWrite ==
    /\ pc = "CloseWrite"
    /\ IF pipe.wclosed \/ pipe.rclosed
       THEN /\ Goto([cur[1] EXCEPT !.piped = TRUE], "ClosePipe")
            /\ pipe' = pipe
       ELSE /\ Goto([cur[1] EXCEPT !.piped = TRUE], "CloseWriting")
            /\ pipe' = [pipe EXCEPT !.data = EndMarker]
    /\ UNCHANGED <<cvars, rvars, w, task>>

\* w.pipeWriter.Write([]byte("\n")) returns
CloseWritten ==
    /\ pc = "CloseWriting"
    /\ pipe.data = << >> \/ pipe.rclosed
    /\ Goto(cur[1], "ClosePipe")
    /\ pipe' = [pipe EXCEPT !.data = << >>]
    /\ UNCHANGED <<cvars, rvars, w, task>>

\* w.pipeWriter.Close()
ClosePipe ==
    /\ pc = "ClosePipe"
    /\ Goto([cur[1] EXCEPT !.waited = TRUE], "CloseWait")
    /\ pipe' = [pipe EXCEPT !.wclosed = TRUE]
    /\ UNCHANGED <<cvars, rvars, w, task>>

\* CloseReturn that does not wait: nil when doneCh is empty
CloseReturn_noWait ==
    /\ pc = "CloseWait"
    /\ Return(cur[1], IF w.doneCh # << >> THEN Head(w.doneCh) ELSE nil)
    /\ w' = [w EXCEPT !.doneCh = << >>]
    /\ UNCHANGED <<cvars, rvars, pipe, task>>

\* return <-w.doneCh
CloseReturn ==
    /\ pc = "CloseWait"
    /\ w.doneCh # << >>
    /\ Return(cur[1], Head(w.doneCh))
    /\ w' = [w EXCEPT !.doneCh = Tail(w.doneCh)]
    /\ UNCHANGED <<cvars, rvars, pipe, task>>

\* Make, which has not come to the end of its stream, reads from the pipe: one
\* Read takes the bytes of the Write that is pending
MakeRead ==
    /\ task = "Make"
    /\ pipe.data # << >>
    /\ Make(stream).err = ErrUnexpectedEOF
    /\ stream' = stream \o pipe.data
    /\ pipe' = [pipe EXCEPT !.data = << >>]
    /\ UNCHANGED <<cvars, recs, damage, built, makeRet, file, iter, out, ret, w, task, pc, cur, calls>>

\* Make returns: it has read the end marker or a malformed record, or its
\* Read has met the closed write end
MakeReturn ==
    /\ task = "Make"
    /\ \E m \in {Make(stream)} :
        /\ (pipe.data = << >> /\ pipe.wclosed) \/ m.err # ErrUnexpectedEOF
        /\ makeRet' = m.err
        /\ file' = m.file
    /\ built' = TRUE
    /\ task' = "send"
    /\ UNCHANGED <<cvars, recs, damage, stream, iter, out, ret, w, pipe, pc, cur, calls>>

\* an operation of Make on ws fails (the Seek to offset 2048, a Write, the
\* Flush) and Make returns its error
MakeFail ==
    /\ task = "Make"
    /\ built' = TRUE
    /\ makeRet' = ErrIO
    /\ task' = "send"
    /\ UNCHANGED <<cvars, recs, damage, stream, file, iter, out, ret, w, pipe, pc, cur, calls>>

\* w.doneCh <- Make(ws, pipeReader): the send, on a channel of capacity 1
Send ==
    /\ task = "send"
    /\ Len(w.doneCh) < 1
    /\ w' = [w EXCEPT !.doneCh = Append(w.doneCh, makeRet)]
    /\ task' = "close"
    /\ UNCHANGED <<cvars, rvars, pipe, pc, cur, calls>>

\* the goroutine ends without closing the read end of the pipe
CloseReader_noClose ==
    /\ task = "close"
    /\ pipe' = pipe
    /\ task' = "done"
    /\ UNCHANGED <<cvars, rvars, w, pc, cur, calls>>

\* the deferred pipeReader.Close()
CloseReader ==
    /\ task = "close"
    /\ pipe' = [pipe EXCEPT !.rclosed = TRUE]
    /\ task' = "done"
    /\ UNCHANGED <<cvars, rvars, w, pc, cur, calls>>

InitW ==
    /\ recs = << >>
    /\ damage = "none"
    /\ stream = << >>
    /\ built = FALSE
    /\ makeRet = nil
    /\ file = << >>
    /\ iter = << >>
    /\ out = << >>
    /\ ret = << >>
    /\ NewWriter
    /\ NoReaders

NextW ==
    \/ \E key \in WKeys, val \in Vals : Write(key, val)
    \/ WriteFprintf
    \/ WriteReturn
    \/ Close
    \/ CloseWrite
    \/ CloseWritten
    \/ ClosePipe
    \/ CloseReturn
    \/ MakeRead
    \/ MakeReturn
    \/ MakeFail
    \/ Send
    \/ CloseReader

SpecW == InitW /\ [][NextW]_vars

\* SpecW with the scheduling of Go: the goroutine of NewWriter runs on while it
\* can (a Read that has bytes to take, the return of Make at the end of its
\* stream, the send, the deferred Close), and a call that has begun goes on
\* whenever it is not blocked.  Nothing makes the caller begin a call, and
\* nothing makes an operation on ws fail.
FairW ==
    /\ WF_vars(MakeRead)
    /\ WF_vars(MakeReturn)
    /\ WF_vars(Send)
    /\ WF_vars(CloseReader)
    /\ WF_vars(WriteFprintf)
    /\ WF_vars(WriteReturn)
    /\ WF_vars(CloseWrite)
    /\ WF_vars(CloseWritten)
    /\ WF_vars(ClosePipe)
    /\ WF_vars(CloseReturn)

SpecWF == SpecW /\ FairW



(***************************************************************************)
(* Damaged files.  New accepts any byte source, so the lookups and scans   *)
(* also run on a built file that was cut short, on one whose header holds  *)
(* another position for an empty sub-table, and on one with an empty slot  *)
(* overwritten by a copy of an occupied slot of its sub-table.  damage     *)
(* says which of these, if any, happened to the file.                      *)
(***************************************************************************)
MaxRecsM == 1
MaxCut == 9

\* the file is the one Make wrote and nothing was asked of it yet
Intact == Fresh /\ damage = "none"

\* the lengths a file f is cut to: around the first record and around the end
Cuts(f) ==
    {n \in ({headerSize - 1} \cup {headerSize + d : d \in 0..MaxCut}
                \cup {Len(f) - d : d \in 1..MaxCut}) : n < Len(f)}

\* the lengths of the files built: a record takes at most 11 bytes and 2 slots
FileLens == 0..(headerSize + 32 * (MaxRecsM + 1))

\* the buckets of the keys, and header entry 0, which the full scan reads
DamagedBuckets == {mod256(checksum(key)) : key \in Keys} \cup {0}

\* the positions written over the position of an empty sub-table
Positions == {zero32, u32(headerSize), <<Half - 1, Half - 1>>}

\* f with the 4 bytes from offset off on replaced by the uint32 a
PutAt(f, off, a) ==
    [i \in 1..Len(f) |-> IF i > off /\ i <= off + 4 THEN putNum(a)[i - off] ELSE f[i]]

\* the file is cut to n bytes
Truncate(n) ==
    /\ Intact
    /\ n \in Cuts(file)
    /\ file' = SubSeq(file, 1, n)
    /\ damage' = "cut"
    /\ UNCHANGED <<cvars, recs, stream, built, makeRet, iter, out, ret, wvars>>

\* the position of the empty sub-table of bucket b becomes a
Scribble(b, a) ==
    /\ Intact
    /\ readNums(file, u32(8 * b)).b = zero32
    /\ readNums(file, u32(8 * b)).a # a
    /\ file' = PutAt(file, 8 * b, a)
    /\ damage' = "pos"
    /\ UNCHANGED <<cvars, recs, stream, built, makeRet, iter, out, ret, wvars>>

\* in the sub-table of bucket b the empty slot i becomes a copy of the occupied
\* slot j
FillSlot(b, i, j) ==
    /\ Intact
    /\ \E hd \in {readNums(file, u32(8 * b))} :
           /\ i < int(hd.b)
           /\ j < int(hd.b)
           /\ \E si \in {readNums(file, add32(hd.a, u32(8 * i)))},
                 sj \in {readNums(file, add32(hd.a, u32(8 * j)))} :
                  /\ si.b = zero32
                  /\ sj.b # zero32
                  /\ file' = PutAt(PutAt(file, int(hd.a) + 8 * i, sj.a),
                                   int(hd.a) + 8 * i + 4, sj.b)
    /\ damage' = "slot"
    /\ UNCHANGED <<cvars, recs, stream, built, makeRet, iter, out, ret, wvars>>

InitM ==
    /\ recs \in SeqsUpTo(Records, MaxRecsM)
    /\ damage = "none"
    /\ stream = FormatStream(recs)
    /\ built = FALSE
    /\ makeRet = nil
    /\ file = << >>
    /\ iter = << >>
    /\ out = << >>
    /\ ret = << >>
    /\ NewWriter
    /\ NoReaders

NextM ==
    \/ DoMake
    \/ \E n \in FileLens : Truncate(n)
    \/ \E b \in DamagedBuckets, a \in Positions : Scribble(b, a)
    \/ \E b \in DamagedBuckets, i, j \in 0..(2 * MaxRecsM) : FillSlot(b, i, j)
    \/ \E key \in Keys : DoIterate(key)
    \/ DoNextBytes
    \/ DoNextReader
    \/ \E key \in Keys : DoExists(key)
    \/ \E key \in Keys : DoBytes(key)
    \/ \E key \in Keys : DoReader(key)
    \/ \E stopAt \in 0..MaxRecsM : DoForEachReader(stopAt)
    \/ \E stopAt \in 0..MaxRecsM : DoForEachBytes(stopAt)
    \/ DoDump

SpecM == InitM /\ [][NextM]_vars

(***************************************************************************)
(* Concurrent reads of one Cdb.  Each caller runs one operation, a step at *)
(* a time: a lookup (Iterate, then NextBytes calls) or ForEachBytes.  A    *)
(* ReadAt into the iterator's scratch buffer and the use of what the       *)
(* buffer holds are separate steps, so that other callers run in between.  *)
(* ForEachReader's buffer and the slices of NextBytes and ForEachBytes are *)
(* locals of the call.                                                     *)
(***************************************************************************)
MaxRecsC == 1
MaxNextC == 2

\* Make has built the file the callers read
Opened == built /\ makeRet = nil

\* the scratch buffer caller i's iterator reads into: a field of the iterator
bufOf_shared(i) == 1

bufOf(i) == i

\* buf after a ReadAt copied data into its first bytes
Put(buf, data) == [k \in DOMAIN buf |-> IF k <= Len(data) THEN data[k] ELSE buf[k]]

\* what the last ReadAt of caller i left: its error and the bytes in the buffer
bufRead(i) == [data |-> SubSeq(bufs[bufOf(i)], 1, rd[i].nread), err |-> rd[i].rerr]

\* caller i, in state r, does r.ReadAt(buf[:n], off) and goes to at
ReadStep(i, r, n, off, at) ==
    \E x \in {ReadAt(file, n, off)} :
        /\ bufs' = [bufs EXCEPT ![bufOf(i)] = Put(@, x.data)]
        /\ rd' = [rd EXCEPT ![i] = [r EXCEPT !.nread = Len(x.data), !.rerr = x.err,
                                             !.pc = at]]

\* NextBytes of caller i, in state r, returns ret
ReturnStep(i, r, ret1) ==
    /\ rd' = [rd EXCEPT ![i] = [r EXCEPT !.out = Append(@, ret1), !.pc = "ready"]]
    /\ UNCHANGED bufs

\* the head of the for loop of next
LoopStep(i, r) ==
    IF ~lt32(r.it.loop, r.it.hslots) THEN ReturnStep(i, r, Ret(FALSE, << >>, EOF))
    ELSE ReadStep(i, r, 8, r.it.kpos, "slot")

\* the head of the for loop of match; on a match next returns nil and NextBytes
\* reads the value into a slice of its own
MatchStep(i, r) ==
    IF r.mn >= Len(r.it.key)
    THEN ReturnStep(i, [r EXCEPT !.it.dpos = add32(add32(r.recPos, u32(8)), r.keyLen),
                                 !.it.dlen = r.dataLen],
                    nextBytesData(ReadAt(file, int(r.dataLen),
                                         add32(add32(r.recPos, u32(8)), r.keyLen))))
    ELSE \E n \in {IF r.mlen > Len(r.it.key) - r.mn THEN Len(r.it.key) - r.mn ELSE r.mlen} :
             ReadStep(i, [r EXCEPT !.mlen = n], n, r.mpos, "match")

\* iter := c.Iterate(key), up to the ReadAt of the header entry
CIterate(i, key) ==
    /\ Opened
    /\ rd[i].pc = "idle"
    /\ ReadStep(i, [rd[i] EXCEPT !.op = "Iterate",
                                 !.it = [zeroIter EXCEPT !.key = key, !.khash = checksum(key)]],
                8, u32(mod256(checksum(key)) * 8), "hdr")
    /\ UNCHANGED <<rvars, wvars>>

\* Iterate from the decoding of the header entry on
CHeader(i) ==
    /\ rd[i].pc = "hdr"
    /\ rd' = [rd EXCEPT ![i].it = iterateTable(rd[i].it.key, rd[i].it.khash,
                                               decodeNums(bufRead(i))),
                        ![i].pc = "ready"]
    /\ UNCHANGED <<bufs, rvars, wvars>>

\* iter.NextBytes(), up to the first ReadAt of a slot
CNext(i) ==
    /\ rd[i].pc = "ready"
    /\ Len(rd[i].out) < MaxNextC
    /\ IF rd[i].it.initErr # nil
       THEN ReturnStep(i, rd[i], Ret(FALSE, << >>, rd[i].it.initErr))
       ELSE LoopStep(i, rd[i])
    /\ UNCHANGED <<rvars, wvars>>

\* next from the decoding of a slot to the next ReadAt
CSlot(i) ==
    /\ rd[i].pc = "slot"
    /\ \E slot \in {decodeNums(bufRead(i))} :
           IF slot.err # nil THEN ReturnStep(i, rd[i], Ret(FALSE, << >>, slot.err))
           ELSE IF slot.b = zero32 THEN ReturnStep(i, rd[i], Ret(FALSE, << >>, EOF))
           ELSE IF slot.a # rd[i].it.khash
           THEN LoopStep(i, [rd[i] EXCEPT !.it = advance(rd[i].it)])
           ELSE ReadStep(i, [rd[i] EXCEPT !.it = advance(rd[i].it), !.recPos = slot.b],
                         8, slot.b, "lens")
    /\ UNCHANGED <<rvars, wvars>>

\* next from the decoding of the record's lengths to the next ReadAt
CLens(i) ==
    /\ rd[i].pc = "lens"
    /\ \E lens \in {decodeNums(bufRead(i))} :
           IF lens.err # nil THEN ReturnStep(i, rd[i], Ret(FALSE, << >>, lens.err))
           ELSE IF lens.a # u32(Len(rd[i].it.key)) THEN LoopStep(i, rd[i])
           ELSE MatchStep(i, [rd[i] EXCEPT !.keyLen = lens.a, !.dataLen = lens.b,
                                           !.mpos = add32(rd[i].recPos, u32(8)),
                                           !.mn = 0, !.mlen = bufLen])
    /\ UNCHANGED <<rvars, wvars>>

\* match from the comparison of the buffer with the key to the next ReadAt
CMatch(i) ==
    /\ rd[i].pc = "match"
    /\ IF rd[i].rerr # nil THEN ReturnStep(i, rd[i], Ret(FALSE, << >>, rd[i].rerr))
       ELSE IF bufRead(i).data # SubSeq(rd[i].it.key, rd[i].mn + 1, rd[i].mn + rd[i].mlen)
       THEN LoopStep(i, rd[i])
       ELSE MatchStep(i, [rd[i] EXCEPT !.mpos = add32(rd[i].mpos, u32(rd[i].mlen)),
                                       !.mn = rd[i].mn + rd[i].mlen])
    /\ UNCHANGED <<rvars, wvars>>

\* c.ForEachBytes(onRecordFn), up to the head of its loop
CForEach(i) ==
    /\ Opened
    /\ rd[i].pc = "idle"
    /\ \E hd \in {readNums(file, zero32)} :
           rd' = [rd EXCEPT ![i] = IF hd.err # nil
                                   THEN [@ EXCEPT !.op = "ForEach", !.pc = "done",
                                                  !.err = hd.err]
                                   ELSE [@ EXCEPT !.op = "ForEach", !.pc = "scan",
                                                  !.pos = u32(headerSize), !.end = hd.a]]
    /\ UNCHANGED <<bufs, rvars, wvars>>

\* one turn of the loop of ForEachReader, with the callback of ForEachBytes
CScan(i) ==
    /\ rd[i].pc = "scan"
    /\ \E lens \in {readNums(file, rd[i].pos)} :
       \E rec \in {onRecord(file, TRUE, add32(rd[i].pos, u32(8)), lens.a,
                            add32(add32(rd[i].pos, u32(8)), lens.a), lens.b)} :
           rd' = [rd EXCEPT ![i] =
                      IF ~lt32(rd[i].pos, rd[i].end) THEN [@ EXCEPT !.pc = "done"]
                      ELSE IF lens.err # nil THEN [@ EXCEPT !.pc = "done", !.err = lens.err]
                      ELSE IF rec.err # nil THEN [@ EXCEPT !.pc = "done", !.err = rec.err]
                      ELSE [@ EXCEPT !.calls = Append(@, Rec(rec.key, rec.val)),
                                     !.pos = add32(add32(add32(rd[i].pos, u32(8)), lens.a),
                                                   lens.b)]]
    /\ UNCHANGED <<bufs, rvars, wvars>>

InitC ==
    /\ recs \in SeqsUpTo(Records, MaxRecsC)
    /\ damage = "none"
    /\ stream = FormatStream(recs)
    /\ built = FALSE
    /\ makeRet = nil
    /\ file = << >>
    /\ iter = << >>
    /\ out = << >>
    /\ ret = << >>
    /\ NewWriter
    /\ NoReaders

NextC ==
    \/ DoMake
    \/ \E i \in Readers, key \in Keys : CIterate(i, key)
    \/ \E i \in Readers : CHeader(i)
    \/ \E i \in Readers : CNext(i)
    \/ \E i \in Readers : CSlot(i)
    \/ \E i \in Readers : CLens(i)
    \/ \E i \in Readers : CMatch(i)
    \/ \E i \in Readers : CForEach(i)
    \/ \E i \in Readers : CScan(i)

SpecC == InitC /\ [][NextC]_vars

(***************************************************************************)
(* ForEachReader, a turn of its loop at a time, on a byte source whose     *)
(* first record may state any lengths.  The callback returns nil; calls    *)
(* keeps what the first MaxScan calls were handed.                         *)
(***************************************************************************)
MaxRecsF == 2
MaxScan == 4

\* the caller that scans
Scanner == CHOOSE i \in Readers : \A j \in Readers : i <= j

\* the (klen, dlen) pairs written over the lengths of the first record: with
\* the first the record ends where it starts (8 + klen + dlen = 2^32), with the
\* second at offset 0, with the third 6 bytes on, with the last 8 bytes on
LenPairs ==
    {<<<<Half - 1, Half - 8>>, zero32>>,
     <<<<Half - 1, Half - headerSize - 8>>, zero32>>,
     <<<<Half - 1, Half - 1>>, <<Half - 1, Half - 1>>>>,
     <<zero32, zero32>>}

\* the byte source is a built file with the lengths lens in its first record;
\* it is what it is before the scan begins
Forge(lens) ==
    /\ Intact
    /\ rd[Scanner].pc = "idle"
    /\ recs # << >>
    /\ file' = PutAt(PutAt(file, headerSize, lens[1]), headerSize + 4, lens[2])
    /\ damage' = "lens"
    /\ UNCHANGED <<cvars, recs, stream, built, makeRet, iter, out, ret, wvars>>

\* c.ForEachReader(onRecordFn), up to the head of its loop
RForEach ==
    /\ Opened
    /\ rd[Scanner].pc = "idle"
    /\ \E hd \in {readNums(file, zero32)} :
           rd' = [rd EXCEPT ![Scanner] =
                      IF hd.err # nil
                      THEN [@ EXCEPT !.op = "ForEachReader", !.pc = "done", !.err = hd.err]
                      ELSE [@ EXCEPT !.op = "ForEachReader", !.pc = "scan",
                                     !.pos = u32(headerSize), !.end = hd.a]]
    /\ UNCHANGED <<bufs, rvars, wvars>>

\* one turn of the loop of ForEachReader
RScan ==
    /\ rd[Scanner].op = "ForEachReader"
    /\ rd[Scanner].pc = "scan"
    /\ \E lens \in {readNums(file, rd[Scanner].pos)} :
       \E rec \in {onRecord(file, FALSE, add32(rd[Scanner].pos, u32(8)), lens.a,
                            add32(add32(rd[Scanner].pos, u32(8)), lens.a), lens.b)} :
           rd' = [rd EXCEPT ![Scanner] =
                      IF ~lt32(rd[Scanner].pos, rd[Scanner].end) THEN [@ EXCEPT !.pc = "done"]
                      ELSE IF lens.err # nil THEN [@ EXCEPT !.pc = "done", !.err = lens.err]
                      ELSE [@ EXCEPT !.calls = IF Len(@) < MaxScan
                                               THEN Append(@, Rec(rec.key, rec.val))
                                               ELSE @,
                                     !.pos = add32(add32(add32(rd[Scanner].pos, u32(8)),
                                                         lens.a), lens.b)]]
    /\ UNCHANGED <<bufs, rvars, wvars>>

InitF ==
    /\ recs \in SeqsUpTo(Records, MaxRecsF)
    /\ damage = "none"
    /\ stream = FormatStream(recs)
    /\ built = FALSE
    /\ makeRet = nil
    /\ file = << >>
    /\ iter = << >>
    /\ out = << >>
    /\ ret = << >>
    /\ NewWriter
    /\ NoReaders

NextF ==
    \/ DoMake
    \/ \E lens \in LenPairs : Forge(lens)
    \/ RForEach
    \/ RScan

\* a scan that has begun goes on: nothing blocks a turn of its loop
SpecF == InitF /\ [][NextF]_vars /\ WF_vars(RScan)


(***************************************************************************)
(* What the records written say a query must return.                       *)
(***************************************************************************)
\* the values written under key k, in write order
RECURSIVE ValuesOf(_, _)
ValuesOf(rs, k) ==
    IF rs = << >> THEN << >>
    ELSE IF Head(rs).key = k THEN <<Head(rs).val>> \o ValuesOf(Tail(rs), k)
    ELSE ValuesOf(Tail(rs), k)

\* the file offset of the value of record j
RECURSIVE ValPos(_, _)
ValPos(rs, j) ==
    IF j = 1 THEN headerSize + 8 + Len(rs[1].key)
    ELSE ValPos(rs, j - 1) + Len(rs[j - 1].val) + 8 + Len(rs[j].key)

NotFound == Ret(FALSE, << >>, EOF)

\* the one-call query made, if any
IsRet(ops) == ret # << >> /\ ret[1].op \in ops

\* C1: an iterator for a key written with the values v1..vn yields v1..vn in
\* that order on its first n NextBytes/NextReader calls and EOF on the next.
C1_IterateYieldsValuesInOrder ==
    iter # << >> =>
        \A i \in 1..Len(out) :
            /\ (1 <= Len(ValuesOf(recs, iter[1].key)) /\ i <= Len(ValuesOf(recs, iter[1].key)))
                   => out[i] = Ret(TRUE, ValuesOf(recs, iter[1].key)[i], nil)
            /\ (1 <= Len(ValuesOf(recs, iter[1].key)) /\ i = Len(ValuesOf(recs, iter[1].key)) + 1)
                   => out[i] = NotFound

\* a key with two values around a record of a key of the same hash, iterated to EOF
C1_Witness ==
    /\ iter # << >>
    /\ recs = <<Rec(KeyHm, <<49>>), Rec(KeyPu, <<49>>), Rec(KeyHm, << >>)>>
    /\ iter[1].key = KeyHm
    /\ out = <<Ret(TRUE, <<49>>, nil), Ret(TRUE, << >>, nil), NotFound>>

\* C2: for a key never written, Bytes returns (nil, EOF), Reader returns EOF,
\* Exists returns (false, nil) and the first Next call of an iterator returns EOF.
C2_NeverWrittenIsNotFound ==
    /\ (IsRet({"Bytes", "Reader"}) /\ ValuesOf(recs, ret[1].key) = << >>)
           => (~ret[1].found /\ ret[1].val = << >> /\ ret[1].err = EOF)
    /\ (IsRet({"Exists"}) /\ ValuesOf(recs, ret[1].key) = << >>)
           => (~ret[1].found /\ ret[1].err = nil)
    /\ (iter # << >> /\ out # << >> /\ ValuesOf(recs, iter[1].key) = << >>)
           => out[1] = NotFound

\* Bytes of a key never written whose hash and length are those of a key written
C2_Witness ==
    /\ IsRet({"Bytes"})
    /\ ret[1].key = KeyV3
    /\ ValuesOf(recs, KeyV3) = << >>
    /\ ValuesOf(recs, KeyPu) # << >>
    /\ ret[1].err = EOF

\* C3: Bytes and Reader return the first value written for the key, which is
\* also the first value an iterator for the key yields.
C3_FirstMatchWins ==
    /\ (IsRet({"Bytes", "Reader"}) /\ ValuesOf(recs, ret[1].key) # << >>)
           => (ret[1].found /\ ret[1].err = nil
                  /\ ret[1].val = ValuesOf(recs, ret[1].key)[1])
    /\ (iter # << >> /\ out # << >> /\ ValuesOf(recs, iter[1].key) # << >>)
           => out[1] = Ret(TRUE, ValuesOf(recs, iter[1].key)[1], nil)

\* Bytes of a key written twice, with another key of its bucket in between
C3_Witness ==
    /\ IsRet({"Bytes"})
    /\ ret[1].key = KeyHm
    /\ recs = <<Rec(KeyHm, <<49>>), Rec(KeyV3, << >>), Rec(KeyHm, << >>)>>
    /\ ret[1].val = <<49>>

\* C4: a lookup or iteration of a key returns only values written under that key,
\* read from the records of that key, and a collision is never an error.
C4_OnlyOwnValues ==
    /\ IsRet({"Bytes", "Reader"}) =>
           /\ ret[1].err \in {nil, EOF}
           /\ ret[1].found =>
                  \E j \in 1..Len(recs) :
                      recs[j].key = ret[1].key /\ recs[j].val = ret[1].val
    /\ IsRet({"Exists"}) =>
           /\ ret[1].err = nil
           /\ ret[1].found => \E j \in 1..Len(recs) : recs[j].key = ret[1].key
    /\ iter # << >> =>
           /\ \A i \in 1..Len(out) :
                  /\ out[i].err \in {nil, EOF}
                  /\ out[i].found =>
                         \E j \in 1..Len(recs) :
                             recs[j].key = iter[1].key /\ recs[j].val = out[i].val
           /\ (out # << >> /\ out[Len(out)].found) =>
                  \E j \in 1..Len(recs) :
                      /\ recs[j].key = iter[1].key
                      /\ iter[1].dpos = u32(ValPos(recs, j))
                      /\ iter[1].dlen = u32(Len(recs[j].val))

\* two keys of the same hash and length with different values, one iterated
C4_Witness ==
    /\ iter # << >>
    /\ iter[1].key = KeyV3
    /\ recs = <<Rec(KeyPu, <<49>>), Rec(KeyV3, << >>), Rec(KeyHm, <<49>>)>>
    /\ out = <<Ret(TRUE, << >>, nil), NotFound>>

\* C5: ForEachReader and ForEachBytes call the callback once per record, in
\* write order, with the record's key and value, and return nil; a callback
\* that returns an error has been called with the records before it.
C5_ForEachVisitsEveryRecord ==
    IsRet({"ForEachReader", "ForEachBytes"}) =>
        IF ret[1].err = ErrCallback
        THEN ret[1].calls = SubSeq(recs, 1, Len(ret[1].calls))
        ELSE ret[1].err = nil /\ ret[1].calls = recs

\* a full scan of a database with no record in bucket 0
C5_Witness ==
    /\ IsRet({"ForEachBytes"})
    /\ recs = <<Rec(KeyEmpty, <<49>>), Rec(KeyEmpty, << >>), Rec(KeyEmpty, <<49>>)>>
    /\ ret[1].calls = recs
    /\ ret[1].err = nil

\* C6: Make accepts every well-formed stream, Dump of the file it builds is that
\* stream byte for byte, and Make of the dump is that file byte for byte.
C6_DumpMakeRoundTrip ==
    /\ built => makeRet = nil
    /\ IsRet({"Dump"}) =>
           /\ ret[1].err = nil
           /\ ret[1].val = stream
           /\ Make(ret[1].val) = [err |-> nil, file |-> file]

\* the dump of a database of three records, not in key order
C6_Witness ==
    /\ IsRet({"Dump"})
    /\ recs = <<Rec(KeyV3, <<49>>), Rec(KeyEmpty, << >>), Rec(KeyHm, <<49>>)>>
    /\ ret[1].val = stream

\* the slot count of header entry b
SlotCount(f, b) == readNums(f, u32(8 * b)).b

\* C7: the file built from no record is 2048 bytes, all of its header entries
\* have a slot count of 0, every lookup on it reports EOF from Iterate on, with
\* no slot read, and a full scan makes no callback and returns nil.
C7_EmptyDatabase ==
    (built /\ recs = << >>) =>
        /\ makeRet = nil
        /\ Len(file) = headerSize
        /\ \A b \in 0..255 : SlotCount(file, b) = zero32
        /\ iter # << >> =>
               /\ iter[1].initErr = EOF
               /\ iter[1].loop = zero32
               /\ \A i \in 1..Len(out) : out[i] = NotFound
        /\ IsRet({"Bytes", "Reader"}) => (~ret[1].found /\ ret[1].err = EOF)
        /\ IsRet({"Exists"}) => (~ret[1].found /\ ret[1].err = nil)
        /\ IsRet({"ForEachReader", "ForEachBytes"}) =>
               (ret[1].calls = << >> /\ ret[1].err = nil)

\* a full scan of the file built from no record
C7_Witness ==
    /\ built
    /\ recs = << >>
    /\ IsRet({"ForEachReader"})
    /\ ret[1].err = nil


(***************************************************************************)
(* What the calls made on a Writer say about its builder.                  *)
(***************************************************************************)
\* the records of the Write calls among the calls cs
RECURSIVE Written(_)
Written(cs) ==
    IF cs = << >> THEN << >>
    ELSE IF Head(cs).op = "Write"
    THEN <<Rec(Head(cs).key, Head(cs).val)>> \o Written(Tail(cs))
    ELSE Written(Tail(cs))

\* the values NextBytes yields from the result r of a NextBytes call on, up to n
RECURSIVE iterateFrom(_, _, _)
iterateFrom(f, r, n) ==
    IF n = 0 \/ ~r.ret.found THEN << >>
    ELSE <<r.ret.val>> \o iterateFrom(f, NextBytes(f, r.iter), n - 1)

\* the values an iterator for key yields on file f before it reports EOF
IterateAll(f, key) == iterateFrom(f, NextBytes(f, Iterate(f, key)), MaxCalls + 1)

\* the calls made are Writes that returned nil and then one Close that returned nil
WrittenAndClosed ==
    /\ calls # << >>
    /\ calls[Len(calls)].op = "Close"
    /\ calls[Len(calls)].err = nil
    /\ \A i \in 1..(Len(calls) - 1) : calls[i].op = "Write" /\ calls[i].err = nil

\* C8: after Writes that each returned nil and a Close that returned nil, Make
\* has read the records' lines in call order and then one blank line, it has
\* returned nil, the file is the one Make builds from that stream, and an
\* iterator for a key yields the values written for it, in write order.
C8_WriterEquivalentToMake ==
    WrittenAndClosed =>
        /\ stream = FormatStream(Written(calls))
        /\ built
        /\ makeRet = nil
        /\ file = Make(FormatStream(Written(calls))).file
        /\ \A key \in Keys : IterateAll(file, key) = ValuesOf(Written(calls), key)

\* the same key written twice with different values, then Close
C8_Witness ==
    /\ WrittenAndClosed
    /\ Written(calls) = <<Rec(KeyPu, <<49>>), Rec(KeyPu, << >>)>>
    /\ IterateAll(file, KeyPu) = << <<49>>, << >> >>

\* call j is the first call begun after Make returned an error
FirstAfterFailure(j) == calls[j].failed /\ (j = 1 \/ ~calls[j - 1].failed)

\* C9: when Make has returned an error, the first call begun after that, Write
\* or Close, returns that error, and no Write begun after that returns nil.
C9_FailureReturnedByNextCall ==
    \A j \in 1..Len(calls) :
        /\ FirstAfterFailure(j) => calls[j].err = makeRet
        /\ (calls[j].failed /\ calls[j].op = "Write") => calls[j].err # nil

\* a Write begun after Make returned an error has returned io.ErrClosedPipe
C9_Witness ==
    /\ calls # << >>
    /\ calls[1].op = "Write"
    /\ calls[1].failed
    /\ makeRet = ErrIO
    /\ calls[1].err = ErrClosedPipe

\* call i is a Write that received Make's error from doneCh and returned it
Observed(i) ==
    /\ calls[i].op = "Write"
    /\ calls[i].recv # << >>
    /\ calls[i].recv[1] # nil
    /\ calls[i].err = calls[i].recv[1]

\* C10: once a Write has received Make's error from doneCh and returned it, the
\* caller is never again in the pipe or waiting on doneCh, and every later
\* Write or Close returns that error without having reached either.
C10_FailedStateIsPermanent ==
    \A i \in 1..Len(calls) :
        Observed(i) =>
            /\ pc = "idle"
            /\ w.makeErr = calls[i].err
            /\ \A j \in (i + 1)..Len(calls) :
                   /\ calls[j].err = calls[i].err
                   /\ ~calls[j].piped
                   /\ ~calls[j].waited
                   /\ calls[j].recv = << >>

\* a Write that received the error, then a Write and a Close
C10_Witness ==
    /\ Len(calls) = 3
    /\ Observed(1)
    /\ calls[2].op = "Write"
    /\ calls[3].op = "Close"
    /\ calls[3].err = ErrIO


\* C11: whenever a Close call has returned, Make has returned before it, what
\* Close returned is what Make returned, and on nil the file is written, header
\* included.
C11_CloseReturnsBuilderResult ==
    \A j \in 1..Len(calls) :
        calls[j].op = "Close" =>
            /\ built
            /\ task # "Make"
            /\ calls[j].err = makeRet
            /\ calls[j].err = nil =>
                   (Len(file) >= headerSize /\ file = Make(stream).file)

\* a Close that waited on doneCh has returned nil after a Write
C11_Witness ==
    /\ Len(calls) = 2
    /\ calls[1].op = "Write"
    /\ calls[2].op = "Close"
    /\ calls[2].waited
    /\ calls[2].err = nil

\* the records of the Write calls among cs that returned nil
RECURSIVE WrittenOK(_)
WrittenOK(cs) ==
    IF cs = << >> THEN << >>
    ELSE IF Head(cs).op = "Write" /\ Head(cs).err = nil
    THEN <<Rec(Head(cs).key, Head(cs).val)>> \o WrittenOK(Tail(cs))
    ELSE WrittenOK(Tail(cs))

\* C12: the pipe holds nothing between calls: Make has read every record whose
\* Write returned nil, a Write that begins finds the pipe empty, and the pipe
\* never holds more than the bytes of the one call in progress.
C12_NoBuffering ==
    /\ stream \in {FormatRecords(WrittenOK(calls)),
                   FormatRecords(WrittenOK(calls)) \o EndMarker,
                   IF pc = "Write"
                   THEN FormatRecords(WrittenOK(calls)) \o Fprintf(cur[1].key, cur[1].val)
                   ELSE FormatRecords(WrittenOK(calls))}
    /\ pc \in {"idle", "Fprintf", "CloseWrite", "ClosePipe", "CloseWait"} => pipe.data = << >>
    /\ pc = "Write" => pipe.data \in {<< >>, Fprintf(cur[1].key, cur[1].val)}
    /\ (pc = "Write" /\ pipe.data # << >>) => stream = FormatRecords(WrittenOK(calls))
    /\ pc = "CloseWriting" => pipe.data \in {<< >>, EndMarker}

\* a second Write has begun after Make read the record of the first
C12_Witness ==
    /\ Len(calls) = 1
    /\ calls[1].op = "Write"
    /\ calls[1].err = nil
    /\ pc = "Write"
    /\ pipe.data # << >>
    /\ stream = Fprintf(calls[1].key, calls[1].val)


(***************************************************************************)
(* The cursor of an iterator.                                              *)
(***************************************************************************)
\* the file offset of the slot at probe index i of iterator it (hslots > 0)
ProbePos(it, i) ==
    int(it.hpos) + 8 * ((mod32(div256(it.khash), it.hslots) + i) % int(it.hslots))

\* the slot at probe index i of iterator it
SlotAt(it, i) == readNums(file, u32(ProbePos(it, i)))

\* this step is a NextBytes or NextReader call
NextCall == iter # << >> /\ iter' # << >> /\ Len(out') = Len(out) + 1

\* the last Next call on the iterator returned err
LastNext(errs) == iter # << >> /\ out # << >> /\ out[Len(out)].err \in errs

\* C16 as stated: an iterator with hslots > 0 reports EOF only when loop has
\* reached hslots.
C16_ExhaustedOnlyOnCount ==
    (LastNext({EOF}) /\ iter[1].initErr = nil) => iter[1].loop = iter[1].hslots

\* C16 as amended: Next counts every occupied slot it reads, match or not, and
\* leaves the cursor after the last of them; it reports EOF when loop has
\* reached hslots or when the slot under the cursor is empty, which it does not
\* count.
C16_ExhaustedOnCountOrEmptySlot ==
    /\ [](LastNext({EOF}) /\ iter[1].initErr = nil =>
              \/ ~lt32(iter[1].loop, iter[1].hslots)
              \/ SlotAt(iter[1], int(iter[1].loop)).b = zero32)
    /\ [][(NextCall /\ iter[1].initErr = nil) =>
              /\ ~lt32(iter'[1].loop, iter[1].loop)
              /\ \A i \in int(iter[1].loop)..(int(iter'[1].loop) - 1) :
                     SlotAt(iter[1], i).b # zero32
              /\ iter'[1].kpos = u32(ProbePos(iter[1], int(iter'[1].loop)))
              /\ out'[Len(out')].err = nil =>
                     /\ lt32(iter[1].loop, iter'[1].loop)
                     /\ iter'[1].dpos =
                            add32(add32(SlotAt(iter[1], int(iter'[1].loop) - 1).b, u32(8)),
                                  u32(Len(iter[1].key)))]_vars

\* EOF from an empty slot, after one slot of another key was counted, in a
\* sub-table of two slots
C16_Witness ==
    /\ recs = <<Rec(KeyPu, <<49>>)>>
    /\ iter # << >>
    /\ iter[1].key = KeyV3
    /\ out = <<NotFound>>
    /\ iter[1].loop = u32(1)
    /\ iter[1].hslots = u32(2)

\* C17: once a Next call on an iterator has returned EOF, the next call on it
\* returns EOF with no value and leaves the iterator as it was, so every later
\* call does.
C17_ExhaustedIsTerminal ==
    [][(NextCall /\ LastNext({EOF})) =>
           (out'[Len(out')] = NotFound /\ iter' = iter)]_vars

\* in a sub-table without an empty slot: a value from each slot, then EOF twice
\* with every slot probed
C17_Witness ==
    /\ damage = "slot"
    /\ iter # << >>
    /\ iter[1].loop = iter[1].hslots
    /\ Len(out) = 4
    /\ out[1].found
    /\ out[2].found
    /\ out[3] = NotFound
    /\ out[4] = NotFound

IsPrefixOf(a, b) == Len(a) <= Len(b) /\ SubSeq(b, 1, Len(a)) = a

\* the offset after the last record, where the first sub-table starts
RecordsEnd(rs) ==
    IF rs = << >> THEN headerSize ELSE ValPos(rs, Len(rs)) + Len(rs[Len(rs)].val)

\* what the i-th Next call of an iterator for key returns on the file built from rs
ExpectedNext(rs, key, i) ==
    IF i <= Len(ValuesOf(rs, key)) THEN Ret(TRUE, ValuesOf(rs, key)[i], nil) ELSE NotFound

\* the lookups made returned what they return on the file as Make built it
LookupsAsBuilt ==
    /\ IsRet({"Bytes", "Reader"}) =>
           Ret(ret[1].found, ret[1].val, ret[1].err) = ExpectedNext(recs, ret[1].key, 1)
    /\ IsRet({"Exists"}) =>
           (ret[1].err = nil /\ ret[1].found = (ValuesOf(recs, ret[1].key) # << >>))
    /\ iter # << >> =>
           \A i \in 1..Len(out) : out[i] = ExpectedNext(recs, iter[1].key, i)

\* the full scan made returned what it returns on the file as Make built it
ScanAsBuilt ==
    IsRet({"ForEachReader", "ForEachBytes"}) =>
        IF ret[1].err = ErrCallback
        THEN ret[1].calls = SubSeq(recs, 1, Len(ret[1].calls))
        ELSE ret[1].err = nil /\ ret[1].calls = recs

\* C14: on a file cut short, no lookup reports EOF for a key that has a record
\* and no value comes back short; a full scan never returns EOF, and returns nil
\* only after it handed every record, whole, to the callback.
C14_ShortReadIsIntegrityError ==
    damage = "cut" =>
        /\ IsRet({"Bytes", "Reader"}) =>
               /\ ret[1].err = EOF => ValuesOf(recs, ret[1].key) = << >>
               /\ ret[1].found => ret[1].val = ValuesOf(recs, ret[1].key)[1]
        /\ IsRet({"Exists"}) =>
               ((~ret[1].found /\ ret[1].err = nil) => ValuesOf(recs, ret[1].key) = << >>)
        /\ iter # << >> =>
               \A i \in 1..Len(out) :
                   /\ out[i].err = EOF => i > Len(ValuesOf(recs, iter[1].key))
                   /\ out[i].found => out[i].val = ValuesOf(recs, iter[1].key)[i]
        /\ IsRet({"ForEachReader", "ForEachBytes"}) =>
               /\ ret[1].err # EOF
               /\ IsPrefixOf(ret[1].calls, recs)
               /\ ret[1].err = nil => ret[1].calls = recs

\* ForEachBytes has returned io.EOF on a file cut after the lengths of its record
C14_Witness ==
    /\ damage = "cut"
    /\ recs = <<Rec(KeyHm, << >>)>>
    /\ Len(file) = headerSize + 8
    /\ IsRet({"ForEachBytes"})
    /\ ret[1].err = EOF

\* C15 as stated: whatever position the header holds for an empty sub-table,
\* every lookup and every full scan returns what it returns on the file as built.
C15_EmptyPositionNeverUsed ==
    damage = "pos" => (LookupsAsBuilt /\ ScanAsBuilt)

\* C15 as amended: whatever position the header holds for an empty sub-table,
\* every lookup returns what it returns on the file as built; a full scan does so
\* when the position of header entry 0 is the end of the records, which it takes
\* for the end of its scan also when sub-table 0 is empty.
C15_EmptyPositionUnusedByLookups ==
    damage = "pos" =>
        /\ LookupsAsBuilt
        /\ readNums(file, zero32).a = u32(RecordsEnd(recs)) => ScanAsBuilt

\* a lookup in bucket 0, which is empty and whose header position was set to 0
C15_Witness ==
    /\ damage = "pos"
    /\ recs = <<Rec(KeyEmpty, <<49>>)>>
    /\ readNums(file, zero32).a = zero32
    /\ IsRet({"Bytes"})
    /\ ret[1].key = KeyPu
    /\ ret[1].err = EOF


(***************************************************************************)
(* The sub-tables of a built file.                                         *)
(***************************************************************************)
\* the file offset of record i
RecStart(rs, i) == ValPos(rs, i) - 8 - Len(rs[i].key)

\* the records of bucket b
InBucket(rs, b) == {i \in DOMAIN rs : mod256(checksum(rs[i].key)) = b}

\* the slots of the sub-table with header entry hd, as (hash, position) pairs
TableOf(f, hd) ==
    [j \in 1..int(hd.b) |-> readNums(f, u32(int(hd.a) + 8 * (j - 1)))]

TableSlots(f, b) == TableOf(f, readNums(f, u32(8 * b)))

\* the key of the record at offset p
KeyAt(f, p) == sectionBytes(f, add32(p, u32(8)), readNums(f, p).a)

\* the sub-table t of bucket b holds the records of bucket b of rs, once each
SubTableOK(f, rs, b, t) ==
    /\ Len(t) = 2 * Cardinality(InBucket(rs, b))
    /\ Cardinality({j \in DOMAIN t : t[j].b # zero32}) = Cardinality(InBucket(rs, b))
    /\ \A j \in DOMAIN t :
           /\ t[j].err = nil
           /\ t[j].b # zero32 =>
                  /\ mod256(t[j].a) = b
                  /\ \E i \in DOMAIN rs : t[j].b = u32(RecStart(rs, i))
                  /\ checksum(KeyAt(f, t[j].b)) = t[j].a
    /\ \A i \in InBucket(rs, b) :
           Cardinality({j \in DOMAIN t : t[j].b = u32(RecStart(rs, i))}) = 1

\* the buckets of the keys written; the sub-table of any other bucket has no
\* record to hold
KeyBuckets == {mod256(checksum(key)) : key \in Keys}

\* C19: in a built file every occupied slot of sub-table b holds a hash h with
\* h % 256 = b and the offset of a record whose key hashes to h; the sub-table of
\* a bucket with n records has 2n slots, n of them occupied, and every record
\* is pointed at by exactly one slot.
C19_BuiltSlotInvariant ==
    Fresh => \A b \in 0..255 :
                 IF b \in KeyBuckets
                 THEN SubTableOK(file, recs, b, TableSlots(file, b))
                 ELSE SlotCount(file, b) = zero32

\* three records in one bucket, two of them with the same key
C19_Witness ==
    /\ Fresh
    /\ recs = <<Rec(KeyPu, <<49>>), Rec(KeyPu, << >>), Rec(KeyV3, <<49>>)>>
    /\ SlotCount(file, mod256(checksum(KeyPu))) = u32(6)
    /\ mod256(checksum(KeyV3)) = mod256(checksum(KeyPu))


(***************************************************************************)
(* Zero-length keys and values.                                            *)
(***************************************************************************)
\* C20: a record with a zero-length value or key is found like any other:
\* Exists returns (true, nil), Bytes, Reader and the iterator return its value,
\* empty if it is empty, with a nil error, and a full scan reports it; EOF is
\* returned only past the records of the key.
C20_ZeroLengthIsAValue ==
    /\ IsRet({"Exists"}) =>
           /\ ValuesOf(recs, ret[1].key) # << >> => (ret[1].found /\ ret[1].err = nil)
           /\ ValuesOf(recs, ret[1].key) = << >> => (~ret[1].found /\ ret[1].err = nil)
    /\ IsRet({"Bytes", "Reader"}) =>
           /\ ret[1].err = EOF => ValuesOf(recs, ret[1].key) = << >>
           /\ (/\ ValuesOf(recs, ret[1].key) # << >>
               /\ (ret[1].key = << >> \/ ValuesOf(recs, ret[1].key)[1] = << >>))
                  => Ret(ret[1].found, ret[1].val, ret[1].err)
                         = Ret(TRUE, ValuesOf(recs, ret[1].key)[1], nil)
    /\ iter # << >> =>
           \A i \in 1..Len(out) :
               /\ out[i].err = EOF => i > Len(ValuesOf(recs, iter[1].key))
               /\ (/\ i <= Len(ValuesOf(recs, iter[1].key))
                   /\ (iter[1].key = << >> \/ ValuesOf(recs, iter[1].key)[i] = << >>))
                      => out[i] = Ret(TRUE, ValuesOf(recs, iter[1].key)[i], nil)
    /\ (IsRet({"ForEachReader", "ForEachBytes"}) /\ ret[1].err = nil) =>
           \A i \in DOMAIN recs :
               (recs[i].key = << >> \/ recs[i].val = << >>) =>
                   (i <= Len(ret[1].calls) /\ ret[1].calls[i] = recs[i])

\* the empty key written with the empty value and then with "1": the iterator
\* returns the empty value, then "1", then EOF
C20_Witness ==
    /\ recs = <<Rec(KeyEmpty, << >>), Rec(KeyEmpty, <<49>>)>>
    /\ iter # << >>
    /\ iter[1].key = KeyEmpty
    /\ out = <<Ret(TRUE, << >>, nil), Ret(TRUE, <<49>>, nil), NotFound>>


(***************************************************************************)
(* Concurrent reads.                                                       *)
(***************************************************************************)
\* the iterator and the results after n NextBytes calls made with no other caller
RECURSIVE soloNexts(_, _, _)
soloNexts(f, it, n) ==
    IF n = 0 THEN [iter |-> it, out |-> << >>]
    ELSE LET p == soloNexts(f, it, n - 1)
             r == NextBytes(f, p.iter)
         IN  [iter |-> r.iter, out |-> Append(p.out, r.ret)]

\* caller i has what its operation gives when run alone
AsAlone(i) ==
    /\ (rd[i].op = "Iterate" /\ rd[i].pc # "hdr") =>
           /\ rd[i].out = soloNexts(file, Iterate(file, rd[i].it.key), Len(rd[i].out)).out
           /\ rd[i].pc = "ready" =>
                  rd[i].it = soloNexts(file, Iterate(file, rd[i].it.key), Len(rd[i].out)).iter
    /\ rd[i].op = "ForEach" =>
           /\ IsPrefixOf(rd[i].calls, ForEachBytes(file, 0).calls)
           /\ rd[i].pc = "done" =>
                  /\ rd[i].calls = ForEachBytes(file, 0).calls
                  /\ rd[i].err = ForEachBytes(file, 0).err

\* a step of caller i leaves the other callers' state and buffers, and the file,
\* as they are
StepIsOwn(i) ==
    rd'[i] # rd[i] =>
        /\ file' = file
        /\ \A j \in Readers \ {i} : rd'[j] = rd[j] /\ bufs'[j] = bufs[j]

\* C13: under every interleaving of the steps of two callers reading one Cdb,
\* each caller's lookup or full scan returns what it returns when run alone, and
\* no step of a caller writes the file or another caller's cursor or buffer.
C13_ConcurrentReadsAsAlone ==
    /\ [](\A i \in Readers : AsAlone(i))
    /\ [][\A i \in Readers : StepIsOwn(i)]_vars

\* caller 2 got a value and is probing for the next while caller 1 is between
\* the read of a record's lengths and their use
C13_Witness ==
    /\ rd[1].op = "Iterate"
    /\ rd[1].pc = "lens"
    /\ rd[2].op = "Iterate"
    /\ rd[2].pc = "slot"
    /\ Len(rd[2].out) = 1
    /\ rd[2].out[1].found
    /\ bufs[1] # bufs[2]


(***************************************************************************)
(* The probe of the reader against the placement of the builder.           *)
(***************************************************************************)
\* the cursor of iterator it after d slots were read and passed
RECURSIVE cursorAfter(_, _)
cursorAfter(it, d) == IF d = 0 THEN it ELSE advance(cursorAfter(it, d - 1))

\* the slot the d-th read of a probe started with iterator it reads (d from 0)
ProbeRead(f, it, d) == readNums(f, cursorAfter(it, d).kpos)

\* the probe started by Iterate(f, key) reads the slot that points at offset p
\* at its d-th read, and no empty slot before
ReachedAt(f, it, p, d) ==
    /\ ProbeRead(f, it, d).err = nil
    /\ ProbeRead(f, it, d).a = it.khash
    /\ ProbeRead(f, it, d).b = u32(p)
    /\ \A e \in 0..(d - 1) : ProbeRead(f, it, e).b # zero32

\* C21: in a built file, for every record, the probe of the record's key, from
\* the slot Iterate computes forward with wraparound, reads the slot that points
\* at the record before any empty slot and within slot_count reads.
C21_ProbeReachesEveryRecord ==
    Fresh =>
        \A i \in DOMAIN recs :
            /\ Iterate(file, recs[i].key).initErr = nil
            /\ \E d \in 0..(int(Iterate(file, recs[i].key).hslots) - 1) :
                   ReachedAt(file, Iterate(file, recs[i].key), RecStart(recs, i), d)

\* three records in one sub-table; the third is reached at the third read, after
\* the probe wrapped to slot 0 (reads of slots 4, 5, 0 of 6)
C21_Witness ==
    /\ Fresh
    /\ Len(recs) = 3
    /\ \A i \in DOMAIN recs : mod256(checksum(recs[i].key)) = mod256(checksum(recs[1].key))
    /\ ReachedAt(file, Iterate(file, recs[3].key), RecStart(recs, 3), 2)
    /\ lt32(cursorAfter(Iterate(file, recs[3].key), 2).kpos, Iterate(file, recs[3].key).kpos)


(***************************************************************************)
(* Termination of the calls of the Writer.                                 *)
(***************************************************************************)
\* the caller is inside Close
InClose == pc \in {"CloseWrite", "CloseWriting", "ClosePipe", "CloseWait"}

\* C22: every Close call returns in the end, whatever Write and Close calls
\* were made before it.
C22_CloseEventuallyReturns == InClose ~> (pc = "idle")

\* a Close has returned nil, the goroutine has ended, and a second Close waits
\* on the empty doneCh
C22_Witness ==
    /\ pc = "CloseWait"
    /\ task = "done"
    /\ w.doneCh = << >>
    /\ \E k \in DOMAIN calls : calls[k].op = "Close" /\ calls[k].err = nil


\* Make has returned and a Write is on its way to the pipe or blocked in it with
\* its bytes not taken
WriteStranded ==
    /\ built
    /\ pc = "Fprintf" \/ (pc = "Write" /\ pipe.data # << >>)

\* this step is the return of a Write that did not hand all its bytes to Make
UnreadWriteReturns ==
    /\ pc' = "idle"
    /\ Len(calls') = Len(calls) + 1
    /\ calls'[Len(calls')].op = "Write"
    /\ ~(pc = "Write" /\ pipe.data = << >>)

\* after Make has returned, such a return is with an error
UnreadWriteFails == (built /\ UnreadWriteReturns) => calls'[Len(calls')].err # nil

\* after its send the goroutine puts nothing on doneCh
NoSecondSend == task \in {"close", "done"} => Len(w'.doneCh) <= Len(w.doneCh)

\* C23: once Make has returned, a Write that is blocked in the pipe with its
\* bytes not taken, or that begins afterwards, returns in the end, and with a
\* non-nil error; the goroutine ends after Make has returned, having sent one
\* result and no more.
C23_WriteNotStranded ==
    /\ WriteStranded ~> (pc = "idle")
    /\ [][UnreadWriteFails]_vars
    /\ (task = "send") ~> (task = "done")
    /\ [][NoSecondSend]_vars

\* a Write begun before Make failed was refused by the pipe after the goroutine
\* closed the read end
C23_Witness ==
    /\ task = "done"
    /\ makeRet = ErrIO
    /\ calls # << >>
    /\ calls[Len(calls)].op = "Write"
    /\ ~calls[Len(calls)].failed
    /\ calls[Len(calls)].piped
    /\ calls[Len(calls)].err = ErrClosedPipe


(***************************************************************************)
(* The cursor of the full scan.                                            *)
(***************************************************************************)
\* this step is a turn of the loop of ForEachReader that called the callback
ScanTurn ==
    /\ rd[Scanner].op = "ForEachReader"
    /\ rd[Scanner].pc = "scan"
    /\ rd'[Scanner].pc = "scan"
    /\ rd'[Scanner] # rd[Scanner]

\* a turn of the loop moves pos forward
PosGrows == ScanTurn => lt32(rd[Scanner].pos, rd'[Scanner].pos)

\* C24: on every byte source ForEachReader returns in the end; each turn of its
\* loop moves pos forward, pos is never inside the header, and the callback is
\* called at most (end - 2048) / 8 times.
C24_ScanTerminates ==
    /\ (rd[Scanner].op = "ForEachReader") ~> (rd[Scanner].pc = "done")
    /\ [][PosGrows]_vars
    /\ [](rd[Scanner].op = "ForEachReader" =>
              /\ ~lt32(rd[Scanner].pos, u32(headerSize))
              /\ (rd[Scanner].calls # << >> =>
                      8 * Len(rd[Scanner].calls) <= int(rd[Scanner].end) - headerSize))

\* the first record states klen = 2^32 - 8 and dlen = 0: the callback was called
\* MaxScan times and pos is where it was at the start
C24_Witness ==
    /\ damage = "lens"
    /\ readNums(file, u32(headerSize)).a = <<Half - 1, Half - 8>>
    /\ rd[Scanner].op = "ForEachReader"
    /\ rd[Scanner].pc = "scan"
    /\ Len(rd[Scanner].calls) = MaxScan
    /\ rd[Scanner].pos = u32(headerSize)


====
